---- MODULE Spec2Model ----
(***************************************************************************)
(* The chess rules engine of chess_gui.py (class ChessGame) as a state     *)
(* machine.  The state is the fields of the ChessGame object; there is one *)
(* action per public mutating method (reset, select_piece, move_piece,     *)
(* handle_click).  The move generators, the attack query and the legal     *)
(* move filter are operators over a board value; the operators that        *)
(* mutate self.board in the source return the board they leave behind.     *)
(* The push-box game of pushbox.py (class Game) is a second object with    *)
(* its own fields and its own state machine, SpecPushbox.                  *)
(***************************************************************************)
EXTENDS Integers, Sequences, FiniteSets, TLC

VARIABLES board, current_turn, selected_piece, valid_moves,
          game_over, winner, in_check, op, ret, ply, recorded,
          level_index, walls, targets, boxes, player, move_count,
          width, height

\* the fields of the Game object of pushbox.py (move_count is self.moves)
pushbox_vars ==
    <<level_index, walls, targets, boxes, player, move_count, width, height>>

vars == <<board, current_turn, selected_piece, valid_moves,
          game_over, winner, in_check, op, ret, ply, recorded, pushbox_vars>>

(***************************************************************************)
(* Values.                                                                 *)
(***************************************************************************)
BOARD_SIZE == 8

\* Python's None where a piece tuple or a square tuple is expected
None == <<>>

\* Python's None where a color string is expected (self.winner)
NoColor == "None"

\* the number of successful moves explored outside the recorded game
MaxPly == 4

\* a run of chess_gui.py holds no Game object of pushbox.py
NoPushGame ==
    /\ level_index = 0
    /\ walls = {}
    /\ targets = {}
    /\ boxes = {}
    /\ player = None
    /\ move_count = 0
    /\ width = 0
    /\ height = 0

Rows == 0 .. (BOARD_SIZE - 1)

InRange(i) == 0 <= i /\ i < BOARD_SIZE

\* "x in list"
InList(x, list) == \E i \in 1 .. Len(list) : list[i] = x

\* a Python list index: a negative index counts from the end of the list
\* (an index outside -BOARD_SIZE .. BOARD_SIZE - 1 is an IndexError, here an
\* application outside the domain)
PyIndex(i) == IF i < 0 THEN i + BOARD_SIZE ELSE i

\* self.board is a list of BOARD_SIZE lists, indexed from 0; here a sequence
\* of sequences, indexed from 1
\* self.board[r][c]
At(b, r, c) == b[PyIndex(r) + 1][PyIndex(c) + 1]

\* self.board[r][c] = p
SetSquare(b, r, c, p) == [b EXCEPT ![PyIndex(r) + 1][PyIndex(c) + 1] = p]

\* 'black' if color == 'white' else 'white'
Opponent(color) == IF color = "white" THEN "black" ELSE "white"

(***************************************************************************)
(* reset / _setup_board                                                    *)
(***************************************************************************)
\* as back_row, but with a second king in place of the queen
back_row_two_kings == <<"rook", "knight", "bishop", "king", "king", "bishop", "knight", "rook">>

back_row == <<"rook", "knight", "bishop", "queen", "king", "bishop", "knight", "rook">>

\* one row holding the piece p in every column
RowOf(p) == <<p, p, p, p, p, p, p, p>>

\* the back rank of a color, in the order of back_row
BackRank(color) ==
    <<<<color, back_row[1]>>, <<color, back_row[2]>>, <<color, back_row[3]>>,
      <<color, back_row[4]>>, <<color, back_row[5]>>, <<color, back_row[6]>>,
      <<color, back_row[7]>>, <<color, back_row[8]>>>>

SetupBoard ==
    <<BackRank("black"), RowOf(<<"black", "pawn">>),
      RowOf(None), RowOf(None), RowOf(None), RowOf(None),
      RowOf(<<"white", "pawn">>), BackRank("white")>>

\* as ResetState, but the winner is left as it was after a black win
ResetStateKeepingWinner ==
    [board |-> SetupBoard, current_turn |-> "white", selected_piece |-> None,
     valid_moves |-> <<>>, game_over |-> FALSE, winner |-> "black",
     in_check |-> FALSE]

\* the fields of a ChessGame after reset()
ResetState ==
    [board |-> SetupBoard, current_turn |-> "white", selected_piece |-> None,
     valid_moves |-> <<>>, game_over |-> FALSE, winner |-> NoColor,
     in_check |-> FALSE]

\* get_piece: bounds-checked read
get_piece(b, row, col) ==
    IF InRange(row) /\ InRange(col) THEN At(b, row, col) ELSE None

(***************************************************************************)
(* Move generators (pseudo-legal), in the order the source appends.        *)
(***************************************************************************)
\* "for i in lo..hi: moves += F(i)": the lists F(lo), ..., F(hi) in order,
\* joined by halves
RECURSIVE ForEach(_, _, _)
ForEach(F(_), lo, hi) ==
    IF lo > hi THEN <<>>
    ELSE IF lo = hi THEN F(lo)
    ELSE LET mid == (lo + hi) \div 2
         IN  ForEach(F, lo, mid) \o ForEach(F, mid + 1, hi)

PawnDirection(color) == IF color = "white" THEN -1 ELSE 1

PawnStartRow(color) == IF color = "white" THEN 6 ELSE 1

\* as get_pawn_moves, but the two-step push does not look at the square
\* stepped over
get_pawn_moves_jumping(b, row, col, color) ==
    LET direction == PawnDirection(color)
        start_row == PawnStartRow(color)
        new_row   == row + direction
        new_row2  == row + 2 * direction
        two == IF row = start_row /\ At(b, new_row2, col) = None
               THEN << <<new_row2, col>> >> ELSE <<>>
        forward == IF InRange(new_row) /\ At(b, new_row, col) = None
                   THEN << <<new_row, col>> >> ELSE <<>>
        capture(dc) ==
            LET new_col == col + dc
            IN  IF InRange(new_row) /\ InRange(new_col)
                   /\ At(b, new_row, new_col) # None
                   /\ At(b, new_row, new_col)[1] # color
                THEN << <<new_row, new_col>> >> ELSE <<>>
    IN  forward \o two \o capture(-1) \o capture(1)

get_pawn_moves(b, row, col, color) ==
    LET direction == PawnDirection(color)
        start_row == PawnStartRow(color)
        new_row   == row + direction
        new_row2  == row + 2 * direction
        two == IF row = start_row /\ At(b, new_row2, col) = None
               THEN << <<new_row2, col>> >> ELSE <<>>
        forward == IF InRange(new_row) /\ At(b, new_row, col) = None
                   THEN << <<new_row, col>> >> \o two ELSE <<>>
        capture(dc) ==
            LET new_col == col + dc
            IN  IF InRange(new_row) /\ InRange(new_col)
                   /\ At(b, new_row, new_col) # None
                   /\ At(b, new_row, new_col)[1] # color
                THEN << <<new_row, new_col>> >> ELSE <<>>
    IN  forward \o capture(-1) \o capture(1)

\* as LinearRay, but the ray goes on behind an opposing piece
RECURSIVE LinearRayThrough(_, _, _, _, _, _)
LinearRayThrough(b, r, c, dr, dc, color) ==
    IF ~(InRange(r) /\ InRange(c)) THEN <<>>
    ELSE IF At(b, r, c) = None \/ At(b, r, c)[1] # color
    THEN << <<r, c>> >> \o LinearRayThrough(b, r + dr, c + dc, dr, dc, color)
    ELSE <<>>

\* the while loop of _get_linear_moves for one direction, from (r, c)
RECURSIVE LinearRay(_, _, _, _, _, _)
LinearRay(b, r, c, dr, dc, color) ==
    IF ~(InRange(r) /\ InRange(c)) THEN <<>>
    ELSE LET target == At(b, r, c)
         IN  IF target = None
             THEN << <<r, c>> >> \o LinearRay(b, r + dr, c + dc, dr, dc, color)
             ELSE IF target[1] # color THEN << <<r, c>> >> ELSE <<>>

get_linear_moves(b, row, col, color, directions) ==
    LET ray(i) == LinearRay(b, row + directions[i][1], col + directions[i][2],
                            directions[i][1], directions[i][2], color)
    IN  ForEach(ray, 1, Len(directions))

RookDirections == << <<0, 1>>, <<0, -1>>, <<1, 0>>, <<-1, 0>> >>

BishopDirections == << <<1, 1>>, <<1, -1>>, <<-1, 1>>, <<-1, -1>> >>

QueenDirections == RookDirections \o BishopDirections

get_rook_moves(b, row, col, color) ==
    get_linear_moves(b, row, col, color, RookDirections)

get_bishop_moves(b, row, col, color) ==
    get_linear_moves(b, row, col, color, BishopDirections)

get_queen_moves(b, row, col, color) ==
    get_linear_moves(b, row, col, color, QueenDirections)

\* one step to each fixed offset: on the board, and empty or opposing
StepMoves(b, row, col, color, offsets) ==
    LET step(i) ==
            LET r == row + offsets[i][1]
                c == col + offsets[i][2]
            IN  IF InRange(r) /\ InRange(c)
                   /\ (At(b, r, c) = None \/ At(b, r, c)[1] # color)
                THEN << <<r, c>> >> ELSE <<>>
    IN  ForEach(step, 1, Len(offsets))

KnightOffsets == << <<-2, -1>>, <<-2, 1>>, <<-1, -2>>, <<-1, 2>>,
                    <<1, -2>>, <<1, 2>>, <<2, -1>>, <<2, 1>> >>

KingOffsets == << <<-1, -1>>, <<-1, 0>>, <<-1, 1>>, <<0, -1>>,
                  <<0, 1>>, <<1, -1>>, <<1, 0>>, <<1, 1>> >>

get_knight_moves(b, row, col, color) ==
    StepMoves(b, row, col, color, KnightOffsets)

get_king_moves(b, row, col, color) ==
    StepMoves(b, row, col, color, KingOffsets)

\* the piece-type dispatch of get_valid_moves
PseudoMoves(b, row, col, piece) ==
    CASE piece[2] = "pawn"   -> get_pawn_moves(b, row, col, piece[1])
      [] piece[2] = "rook"   -> get_rook_moves(b, row, col, piece[1])
      [] piece[2] = "knight" -> get_knight_moves(b, row, col, piece[1])
      [] piece[2] = "bishop" -> get_bishop_moves(b, row, col, piece[1])
      [] piece[2] = "queen"  -> get_queen_moves(b, row, col, piece[1])
      [] piece[2] = "king"   -> get_king_moves(b, row, col, piece[1])
      [] OTHER -> <<>>

(***************************************************************************)
(* Attack query.                                                           *)
(***************************************************************************)
\* _find_king: the first (row-major) square holding (color, 'king')
find_king(b, color) ==
    LET ks == {i \in 0 .. (BOARD_SIZE * BOARD_SIZE - 1) :
                 At(b, i \div BOARD_SIZE, i % BOARD_SIZE) = <<color, "king">>}
    IN  IF ks = {} THEN None
        ELSE LET k == CHOOSE i \in ks : \A j \in ks : i <= j
             IN  <<k \div BOARD_SIZE, k % BOARD_SIZE>>

\* as RawPawnMoves, but the square straight ahead counts as well
RawPawnMovesAhead(row, col, color) ==
    LET new_row == row + PawnDirection(color)
        reach(dc) == IF InRange(new_row) /\ InRange(col + dc)
                     THEN << <<new_row, col + dc>> >> ELSE <<>>
    IN  reach(-1) \o reach(0) \o reach(1)

\* the pawn branch of _get_raw_moves: both forward diagonals on the board
RawPawnMoves(row, col, color) ==
    LET new_row == row + PawnDirection(color)
        diag(dc) == IF InRange(new_row) /\ InRange(col + dc)
                    THEN << <<new_row, col + dc>> >> ELSE <<>>
    IN  diag(-1) \o diag(1)

get_raw_moves(b, row, col, piece) ==
    CASE piece[2] = "pawn"   -> RawPawnMoves(row, col, piece[1])
      [] piece[2] = "rook"   -> get_linear_moves(b, row, col, piece[1], RookDirections)
      [] piece[2] = "knight" -> get_knight_moves(b, row, col, piece[1])
      [] piece[2] = "bishop" -> get_linear_moves(b, row, col, piece[1], BishopDirections)
      [] piece[2] = "queen"  -> get_linear_moves(b, row, col, piece[1], QueenDirections)
      [] piece[2] = "king"   -> get_king_moves(b, row, col, piece[1])
      [] OTHER -> <<>>

is_square_attacked(b, row, col, by_color) ==
    \E r \in Rows : \E c \in Rows :
        /\ At(b, r, c) # None
        /\ At(b, r, c)[1] = by_color
        /\ InList(<<row, col>>, get_raw_moves(b, r, c, At(b, r, c)))

is_in_check(b, color) ==
    LET king_pos == find_king(b, color)
    IN  IF king_pos = None THEN FALSE
        ELSE is_square_attacked(b, king_pos[1], king_pos[2], Opponent(color))

(***************************************************************************)
(* Legal move filter.  _would_be_in_check plays the move on self.board,    *)
(* inspects and undoes it: the result carries the board it leaves.         *)
(***************************************************************************)
\* as KingAttacked, but a missing king counts as not in check, as it does
\* in is_in_check
KingAttackedIfPresent(b, king_pos, color) ==
    IF king_pos = None THEN FALSE
    ELSE is_square_attacked(b, king_pos[1], king_pos[2], Opponent(color))

\* lines 256-259 and 266: whether the king found at king_pos is attacked on
\* the board b; a missing king counts as in check
KingAttacked(b, king_pos, color) ==
    IF king_pos = None THEN TRUE
    ELSE is_square_attacked(b, king_pos[1], king_pos[2], Opponent(color))

\* as would_be_in_check, but the king is located before the move is made
would_be_in_check_stale_king(b, from_row, from_col, to_row, to_col, color) ==
    LET original_piece == At(b, to_row, to_col)
        moving_piece   == At(b, from_row, from_col)
        made   == SetSquare(SetSquare(b, to_row, to_col, moving_piece),
                            from_row, from_col, None)
        undone == SetSquare(SetSquare(made, from_row, from_col, moving_piece),
                            to_row, to_col, original_piece)
    IN  [in_check |-> KingAttacked(made, find_king(b, color), color),
         board |-> undone]

\* as would_be_in_check, but a capture is not put back
would_be_in_check_losing_capture(b, from_row, from_col, to_row, to_col, color) ==
    LET moving_piece   == At(b, from_row, from_col)
        made   == SetSquare(SetSquare(b, to_row, to_col, moving_piece),
                            from_row, from_col, None)
        undone == SetSquare(SetSquare(made, from_row, from_col, moving_piece),
                            to_row, to_col, None)
    IN  [in_check |-> KingAttacked(made, find_king(made, color), color),
         board |-> undone]

would_be_in_check(b, from_row, from_col, to_row, to_col, color) ==
    LET original_piece == At(b, to_row, to_col)
        moving_piece   == At(b, from_row, from_col)
        made   == SetSquare(SetSquare(b, to_row, to_col, moving_piece),
                            from_row, from_col, None)
        undone == SetSquare(SetSquare(made, from_row, from_col, moving_piece),
                            to_row, to_col, original_piece)
    IN  [in_check |-> KingAttacked(made, find_king(made, color), color),
         board |-> undone]

\* lines 105-106: the move is kept unless the probe w found check; the board
\* is the one the probe left
KeepUnlessCheck(w, move) ==
    [moves |-> IF w.in_check THEN <<>> ELSE <<move>>, board |-> w.board]

\* the outcome of two consecutive runs of the filter loop
JoinFiltered(first, rest) ==
    [moves |-> first.moves \o rest.moves, board |-> rest.board]

\* the filter loop of get_valid_moves over moves[lo..hi], run on the board b:
\* the moves kept and the board left, the calls made in order (by halves)
RECURSIVE FilterMoves(_, _, _, _, _, _, _)
RECURSIVE FilterRest(_, _, _, _, _, _, _)
FilterMoves(b, row, col, color, moves, lo, hi) ==
    IF lo > hi THEN [moves |-> <<>>, board |-> b]
    ELSE IF lo = hi
    THEN KeepUnlessCheck(would_be_in_check(b, row, col, moves[lo][1],
                                           moves[lo][2], color),
                         moves[lo])
    ELSE FilterRest(FilterMoves(b, row, col, color, moves, lo, (lo + hi) \div 2),
                    row, col, color, moves, (lo + hi) \div 2 + 1, hi)

\* the filter loop continued over moves[lo..hi] after the run first
FilterRest(first, row, col, color, moves, lo, hi) ==
    JoinFiltered(first, FilterMoves(first.board, row, col, color, moves, lo, hi))

\* lines 102-109: the filter loop over the whole list moves
FilterAll(b, row, col, color, moves) ==
    FilterMoves(b, row, col, color, moves, 1, Len(moves))

\* get_valid_moves: the returned list and the board after the call
get_valid_moves(b, row, col) ==
    IF get_piece(b, row, col) = None THEN [moves |-> <<>>, board |-> b]
    ELSE FilterAll(b, row, col, get_piece(b, row, col)[1],
                   PseudoMoves(b, row, col, get_piece(b, row, col)))

\* line 297: a piece whose get_valid_moves result v is not empty was found
FoundIfAny(v) == [found |-> v.moves # <<>>, board |-> v.board]

\* the scan of _has_valid_moves over the squares lo..hi in row-major order,
\* run on the board b: whether a piece of color with a legal move was found
\* (the scan returns at the first), and the board left
RECURSIVE ScanForMoves(_, _, _, _)
RECURSIVE ScanRest(_, _, _, _)
ScanForMoves(b, color, lo, hi) ==
    IF lo = hi
    THEN IF /\ At(b, lo \div BOARD_SIZE, lo % BOARD_SIZE) # None
            /\ At(b, lo \div BOARD_SIZE, lo % BOARD_SIZE)[1] = color
         THEN FoundIfAny(get_valid_moves(b, lo \div BOARD_SIZE, lo % BOARD_SIZE))
         ELSE [found |-> FALSE, board |-> b]
    ELSE ScanRest(ScanForMoves(b, color, lo, (lo + hi) \div 2),
                  color, (lo + hi) \div 2 + 1, hi)

\* the scan continued over the squares lo..hi after the run first
ScanRest(first, color, lo, hi) ==
    IF first.found THEN first
    ELSE ScanForMoves(first.board, color, lo, hi)

\* lines 298-299: the value _has_valid_moves returns after the scan
ScanResult(scan) == [result |-> scan.found, board |-> scan.board]

\* _has_valid_moves: the value returned and the board after the call
has_valid_moves(b, color) ==
    ScanResult(ScanForMoves(b, color, 0, BOARD_SIZE * BOARD_SIZE - 1))

\* lines 283 and 289: "not self._has_valid_moves(color)", h being the result
\* of _has_valid_moves
NoMoves(h) == [result |-> ~h.result, board |-> h.board]

\* as is_checkmate, but without testing for check first
is_checkmate_any(b, color) == NoMoves(has_valid_moves(b, color))

is_checkmate(b, color) ==
    IF ~is_in_check(b, color) THEN [result |-> FALSE, board |-> b]
    ELSE NoMoves(has_valid_moves(b, color))

is_stalemate(b, color) ==
    IF is_in_check(b, color) THEN [result |-> FALSE, board |-> b]
    ELSE NoMoves(has_valid_moves(b, color))

(***************************************************************************)
(* The public mutating methods, as functions of the object's fields s:     *)
(* each gives the fields after the call and the value returned.            *)
(***************************************************************************)
\* as OwnPiece, but a piece of either color
AnyPiece(piece, turn) == piece # None

\* line 304 (and 355): a piece of the side to move
OwnPiece(piece, turn) == piece # None /\ piece[1] = turn

\* as Selected, but the moves cached are the pseudo-legal ones, unfiltered
SelectedUnfiltered(s, row, col, v) ==
    [st |-> [s EXCEPT !.selected_piece = <<row, col>>,
                      !.valid_moves = PseudoMoves(s.board, row, col,
                                                  At(s.board, row, col)),
                      !.board = v.board],
     ret |-> "True"]

\* as Selected, but the game is put back in play
SelectedReopening(s, row, col, v) ==
    [st |-> [s EXCEPT !.selected_piece = <<row, col>>,
                      !.valid_moves = v.moves,
                      !.board = v.board,
                      !.game_over = FALSE],
     ret |-> "True"]

\* lines 305-307: the piece is selected, v being the result of
\* get_valid_moves
Selected(s, row, col, v) ==
    [st |-> [s EXCEPT !.selected_piece = <<row, col>>,
                      !.valid_moves = v.moves,
                      !.board = v.board],
     ret |-> "True"]

\* as select_piece, but selecting the selected square again deselects it
select_piece_toggling(s, row, col) ==
    IF OwnPiece(get_piece(s.board, row, col), s.current_turn)
    THEN IF s.selected_piece = <<row, col>>
         THEN [st |-> [s EXCEPT !.selected_piece = None, !.valid_moves = <<>>],
               ret |-> "True"]
         ELSE Selected(s, row, col, get_valid_moves(s.board, row, col))
    ELSE [st |-> s, ret |-> "False"]

select_piece(s, row, col) ==
    IF OwnPiece(get_piece(s.board, row, col), s.current_turn)
    THEN Selected(s, row, col, get_valid_moves(s.board, row, col))
    ELSE [st |-> s, ret |-> "False"]

\* as MakeMove, but a pawn that reaches the first or the last row becomes a
\* queen
PromotingMove(b, from_row, from_col, to_row, to_col) ==
    SetSquare(SetSquare(b, to_row, to_col,
                        IF At(b, from_row, from_col)[2] = "pawn"
                           /\ to_row \in {0, BOARD_SIZE - 1}
                        THEN <<At(b, from_row, from_col)[1], "queen">>
                        ELSE At(b, from_row, from_col)),
              from_row, from_col, None)

\* as MakeMove, but the piece on the destination goes to the origin
SwapMove(b, from_row, from_col, to_row, to_col) ==
    SetSquare(SetSquare(b, to_row, to_col, At(b, from_row, from_col)),
              from_row, from_col, At(b, to_row, to_col))

\* lines 320-322: the move itself
MakeMove(b, from_row, from_col, to_row, to_col) ==
    SetSquare(SetSquare(b, to_row, to_col, At(b, from_row, from_col)),
              from_row, from_col, None)

\* as ClearSelection, but the cached moves are kept
ClearSelectionKeepMoves(s) == [s EXCEPT !.selected_piece = None]

\* lines 324-326: clear selection
ClearSelection(s) == [s EXCEPT !.selected_piece = None, !.valid_moves = <<>>]

\* as NextTurn, but the turn only ever passes to black
NextTurnBlack(turn) == "black"

\* line 329: switch turns
NextTurn(turn) == IF turn = "white" THEN "black" ELSE "white"

\* as WinnerOver, but the checkmated side wins
WinnerIsLoser(turn) == turn

\* line 336: the winner when turn is checkmated
WinnerOver(turn) == IF turn = "black" THEN "white" ELSE "black"

\* line 332: self.in_check = self.is_in_check(self.current_turn)
\* as SetInCheck, but for the side that has just moved
SetInCheckOfMover(s) ==
    [s EXCEPT !.in_check = is_in_check(s.board, Opponent(s.current_turn))]

SetInCheck(s) == [s EXCEPT !.in_check = is_in_check(s.board, s.current_turn)]

\* as StalemateStatus, but a stalemate is won by the side that moved
StalemateStatusWon(s, stale) ==
    IF stale.result
    THEN [s EXCEPT !.board = stale.board, !.game_over = TRUE,
                   !.winner = WinnerOver(s.current_turn)]
    ELSE [s EXCEPT !.board = stale.board]

\* lines 337-339: the elif branch, stale being the result of is_stalemate
StalemateStatus(s, stale) ==
    IF stale.result
    THEN [s EXCEPT !.board = stale.board, !.game_over = TRUE,
                   !.winner = NoColor]
    ELSE [s EXCEPT !.board = stale.board]

\* lines 334-339: the if statement, mate being the result of is_checkmate
CheckmateStatus(s, mate) ==
    IF mate.result
    THEN [s EXCEPT !.board = mate.board, !.game_over = TRUE,
                   !.winner = WinnerOver(s.current_turn)]
    ELSE StalemateStatus(s, is_stalemate(mate.board, s.current_turn))

\* lines 331-339: check, checkmate and stalemate for the new side to move
AfterMoveStatus(s) ==
    CheckmateStatus(SetInCheck(s), is_checkmate(s.board, s.current_turn))

\* as RejectMove, but the selection is dropped
RejectMoveDeselecting(s) ==
    [st |-> [s EXCEPT !.selected_piece = None, !.valid_moves = <<>>],
     ret |-> "False"]

\* lines 313 and 318: move_piece refuses, touching nothing
RejectMove(s) == [st |-> s, ret |-> "False"]

move_piece(s, to_row, to_col) ==
    IF s.selected_piece = None THEN RejectMove(s)
    ELSE IF ~InList(<<to_row, to_col>>, s.valid_moves) THEN RejectMove(s)
    ELSE LET made == [s EXCEPT !.board =
                         MakeMove(s.board, s.selected_piece[1],
                                  s.selected_piece[2], to_row, to_col)]
             next == [ClearSelection(made) EXCEPT
                         !.current_turn = NextTurn(s.current_turn)]
         IN  [st |-> AfterMoveStatus(next), ret |-> "True"]

\* as Deselect, but the cached moves are kept
DeselectKeepingMoves(s) == [s EXCEPT !.selected_piece = None]

\* lines 358-360: deselect
Deselect(s) == [s EXCEPT !.selected_piece = None, !.valid_moves = <<>>]

handle_click(s, row, col) ==
    IF s.game_over THEN [st |-> s, ret |-> "None"]
    ELSE IF InList(<<row, col>>, s.valid_moves)
    THEN [st |-> move_piece(s, row, col).st, ret |-> "None"]
    ELSE IF OwnPiece(get_piece(s.board, row, col), s.current_turn)
    THEN [st |-> select_piece(s, row, col).st, ret |-> "None"]
    ELSE [st |-> Deselect(s), ret |-> "None"]

(***************************************************************************)
(* The state machine.                                                      *)
(***************************************************************************)
\* the object's fields in the current state
Cur ==
    [board |-> board, current_turn |-> current_turn,
     selected_piece |-> selected_piece, valid_moves |-> valid_moves,
     game_over |-> game_over, winner |-> winner, in_check |-> in_check]

Install(s) ==
    /\ board' = s.board
    /\ current_turn' = s.current_turn
    /\ selected_piece' = s.selected_piece
    /\ valid_moves' = s.valid_moves
    /\ game_over' = s.game_over
    /\ winner' = s.winner
    /\ in_check' = s.in_check

\* the squares a caller passes: those of the white f and g pawns (f2, f3,
\* g2, g4), of the black e pawn (e7, e5) and queen (d8, h4), the squares c8
\* and e6, and two squares off the board
Inputs ==
    {<<6, 5>>, <<5, 5>>, <<6, 6>>, <<4, 6>>, <<1, 4>>, <<3, 4>>, <<0, 3>>,
     <<4, 7>>, <<0, 2>>, <<2, 4>>, <<-1, 4>>, <<3, 8>>}

\* A recorded game: the clicks (origin, destination, origin, ...) of
\* 1.e3 a5 2.Qh5 Ra6 3.Qxa5 h5 4.h4 Rah6 5.Qxc7 f6 6.Qxd7+ Kf7 7.Qxb7 Qd3
\* 8.Qxb8 Qh7 9.Qxc8 Kg6, after which 10.Qe6 leaves black without a move
RecordedClicks ==
    << <<6, 4>>, <<5, 4>>,  <<1, 0>>, <<3, 0>>,  <<7, 3>>, <<3, 7>>,
       <<0, 0>>, <<2, 0>>,  <<3, 7>>, <<3, 0>>,  <<1, 7>>, <<3, 7>>,
       <<6, 7>>, <<4, 7>>,  <<2, 0>>, <<2, 7>>,  <<3, 0>>, <<1, 2>>,
       <<1, 5>>, <<2, 5>>,  <<1, 2>>, <<1, 3>>,  <<0, 4>>, <<1, 5>>,
       <<1, 3>>, <<1, 1>>,  <<0, 3>>, <<5, 3>>,  <<1, 1>>, <<0, 1>>,
       <<5, 3>>, <<1, 7>>,  <<0, 1>>, <<0, 2>>,  <<1, 5>>, <<2, 6>> >>

\* the object after construction
Init ==
    /\ board = ResetState.board
    /\ current_turn = ResetState.current_turn
    /\ selected_piece = ResetState.selected_piece
    /\ valid_moves = ResetState.valid_moves
    /\ game_over = ResetState.game_over
    /\ winner = ResetState.winner
    /\ in_check = ResetState.in_check
    /\ op = "__init__"
    /\ ret = "None"
    /\ ply = 0
    /\ recorded = 0
    /\ NoPushGame

\* The caller either follows the recorded game, click by click from a new
\* game, or clicks squares of Inputs: recorded counts the recorded clicks
\* made so far, and ply the successful moves made outside the recorded game.
\* Between the first and the last recorded click only the next recorded click
\* (or reset) is made.
Recording == 0 < recorded /\ recorded < Len(RecordedClicks)

\* the next recorded click, if the game so far is a prefix of the recorded one
NextRecorded ==
    IF recorded < Len(RecordedClicks) /\ ply = 0
    THEN {RecordedClicks[recorded + 1]} ELSE {}

\* the call of the method name returned r: its fields and its value
Returned(r, name) ==
    /\ Install(r.st)
    /\ op' = name
    /\ ret' = r.ret
    /\ UNCHANGED pushbox_vars

Reset ==
    /\ Install(ResetState)
    /\ op' = "reset"
    /\ ret' = "None"
    /\ ply' = 0
    /\ recorded' = 0
    /\ UNCHANGED pushbox_vars

SelectPiece ==
    /\ ~Recording
    /\ \E sq \in Inputs :
          /\ Returned(select_piece(Cur, sq[1], sq[2]), "select_piece")
          /\ UNCHANGED <<ply, recorded>>

\* a move_piece call that returned r counts as a ply if it moved
MoveReturned(r) ==
    /\ r.ret = "True" => ply < MaxPly
    /\ Returned(r, "move_piece")
    /\ ply' = IF r.ret = "True" THEN ply + 1 ELSE ply
    /\ UNCHANGED recorded

MovePiece ==
    /\ ~Recording
    /\ \E sq \in Inputs : MoveReturned(move_piece(Cur, sq[1], sq[2]))

HandleClick ==
    \E sq \in (IF Recording THEN {} ELSE Inputs) \cup NextRecorded :
        LET follows == sq \in NextRecorded
            moves == ~game_over /\ InList(sq, valid_moves)
        IN  /\ (moves /\ ~follows) => ply < MaxPly
            /\ Returned(handle_click(Cur, sq[1], sq[2]), "handle_click")
            /\ ply' = IF moves /\ ~follows THEN ply + 1 ELSE ply
            /\ recorded' = IF follows THEN recorded + 1 ELSE recorded

Next == Reset \/ SelectPiece \/ MovePiece \/ HandleClick

Spec == Init /\ [][Next]_vars

(***************************************************************************)
(* Late positions.  A second state machine starts the same object in       *)
(* positions of a few pieces, as they stand after a move_piece call that   *)
(* did not end the game, and calls the same methods on them.               *)
(***************************************************************************)
\* the number of successful moves explored from a late position
MaxScenePly == 2

EmptyBoard ==
    <<RowOf(None), RowOf(None), RowOf(None), RowOf(None),
      RowOf(None), RowOf(None), RowOf(None), RowOf(None)>>

\* the board b with the pieces of the list placed; an entry is
\* <<row, col, color, type>>
RECURSIVE Place(_, _)
Place(b, pieces) ==
    IF pieces = <<>> THEN b
    ELSE Place(SetSquare(b, pieces[1][1], pieces[1][2],
                         <<pieces[1][3], pieces[1][4]>>),
               Tail(pieces))

\* white to move: Rh5-h8 is a back-rank mate
BeforeBackRankMate ==
    Place(EmptyBoard, << <<0, 0, "black", "king">>, <<1, 0, "black", "pawn">>,
                         <<1, 1, "black", "pawn">>, <<3, 7, "white", "rook">>,
                         <<7, 4, "white", "king">> >>)

\* white to move: Qh6-b6 leaves the black king without a move
BeforeQueenStalemate ==
    Place(EmptyBoard, << <<0, 0, "black", "king">>, <<2, 7, "white", "queen">>,
                         <<7, 4, "white", "king">> >>)

\* white to move: the pawn g7 is one step from the last rank, and so is the
\* black pawn b2
BeforeLastRank ==
    Place(EmptyBoard, << <<3, 0, "black", "king">>, <<1, 6, "white", "pawn">>,
                         <<6, 1, "black", "pawn">>, <<4, 7, "white", "king">> >>)

\* black to move: the king e6 stands two squares in front of the pawn e4
KingBeforePawn ==
    Place(EmptyBoard, << <<2, 4, "black", "king">>, <<4, 4, "white", "pawn">>,
                         <<7, 0, "white", "king">> >>)

\* white to move: the pawn c2 is blocked by a knight and can take on d3,
\* the pawn f2 can step once only, the pawn a2 is free
PawnsAtHome ==
    Place(EmptyBoard, << <<0, 7, "black", "king">>, <<1, 2, "black", "pawn">>,
                         <<5, 2, "black", "knight">>, <<5, 3, "black", "pawn">>,
                         <<4, 5, "black", "pawn">>, <<6, 0, "white", "pawn">>,
                         <<6, 2, "white", "pawn">>, <<6, 5, "white", "pawn">>,
                         <<7, 7, "white", "king">> >>)

\* the fields after a move that left the board b with turn to move and the
\* game going on
SceneState(b, turn) ==
    [board |-> b, current_turn |-> turn, selected_piece |-> None,
     valid_moves |-> <<>>, game_over |-> FALSE, winner |-> NoColor,
     in_check |-> is_in_check(b, turn)]

Scenes ==
    {SceneState(BeforeBackRankMate, "white"),
     SceneState(BeforeQueenStalemate, "white"),
     SceneState(BeforeLastRank, "white"),
     SceneState(KingBeforePawn, "black"),
     SceneState(PawnsAtHome, "white")}

\* the squares a caller passes in these positions
SceneInputs ==
    {<<0, 0>>, <<1, 0>>, <<1, 1>>, <<3, 7>>, <<0, 7>>, <<2, 7>>, <<2, 1>>,
     <<1, 6>>, <<0, 6>>, <<6, 1>>, <<7, 1>>, <<2, 4>>, <<3, 4>>, <<3, 3>>,
     <<3, 5>>, <<4, 4>>, <<6, 2>>, <<5, 2>>, <<5, 3>>, <<4, 2>>, <<6, 5>>,
     <<5, 5>>, <<4, 5>>, <<6, 0>>, <<4, 0>>, <<1, 2>>, <<3, 2>>}

InitScenes ==
    /\ \E s \in Scenes :
          /\ board = s.board
          /\ current_turn = s.current_turn
          /\ selected_piece = s.selected_piece
          /\ valid_moves = s.valid_moves
          /\ game_over = s.game_over
          /\ winner = s.winner
          /\ in_check = s.in_check
    /\ op = "move_piece"
    /\ ret = "True"
    /\ ply = 0
    /\ recorded = 0
    /\ NoPushGame

SceneSelectPiece ==
    \E sq \in SceneInputs :
        /\ Returned(select_piece(Cur, sq[1], sq[2]), "select_piece")
        /\ UNCHANGED <<ply, recorded>>

\* a move_piece call that returned r in a late position
SceneMoveReturned(r) ==
    /\ r.ret = "True" => ply < MaxScenePly
    /\ Returned(r, "move_piece")
    /\ ply' = IF r.ret = "True" THEN ply + 1 ELSE ply
    /\ UNCHANGED recorded

SceneMovePiece ==
    \E sq \in SceneInputs : SceneMoveReturned(move_piece(Cur, sq[1], sq[2]))

SceneHandleClick ==
    \E sq \in SceneInputs :
        LET moves == ~game_over /\ InList(sq, valid_moves)
        IN  /\ moves => ply < MaxScenePly
            /\ Returned(handle_click(Cur, sq[1], sq[2]), "handle_click")
            /\ ply' = IF moves THEN ply + 1 ELSE ply
            /\ UNCHANGED recorded

NextScenes == SceneSelectPiece \/ SceneMovePiece \/ SceneHandleClick

SpecScenes == InitScenes /\ [][NextScenes]_vars

(***************************************************************************)
(* The push-box game of pushbox.py.  A position is <<x, y>>, x counting    *)
(* the characters of a row from 0 and y the rows of the level from 0.      *)
(***************************************************************************)
WALL == "#"

FLOOR == " "

PLAYER == "@"

PLAYER_ON_TARGET == "+"

BOX == "$"

BOX_ON_TARGET == "*"

TARGET == "."

\* the two level layouts, a row being the list of its characters
LEVELS ==
  <<
    <<<<"#", "#", "#", "#", "#", "#", "#", "#">>,
      <<"#", " ", " ", " ", " ", " ", " ", "#">>,
      <<"#", " ", "$", " ", "$", " ", " ", "#">>,
      <<"#", " ", "$", "@", "$", " ", " ", "#">>,
      <<"#", " ", " ", ".", " ", " ", " ", "#">>,
      <<"#", " ", ".", ".", ".", " ", " ", "#">>,
      <<"#", " ", " ", " ", " ", " ", " ", "#">>,
      <<"#", "#", "#", "#", "#", "#", "#", "#">>>>,
    <<<<" ", " ", "#", "#", "#", "#", "#", "#">>,
      <<"#", "#", "#", " ", " ", " ", " ", "#">>,
      <<"#", " ", " ", "$", " ", " ", " ", "#">>,
      <<"#", " ", "#", "$", " ", "#", " ", "#">>,
      <<"#", " ", ".", " ", ".", "$", " ", "#">>,
      <<"#", " ", "#", "@", " ", "#", " ", "#">>,
      <<"#", " ", " ", ".", " ", "#", "#", "#">>,
      <<"#", "#", "#", "#", "#", "#", "#", "#">>>>
  >>

\* the number of successful moves explored in the push-box game
MaxMoves == 6

\* the greatest of the lengths of the rows of level
MaxRowLen(level) ==
    CHOOSE n \in {Len(level[y]) : y \in 1 .. Len(level)} :
        \A y \in 1 .. Len(level) : Len(level[y]) <= n

\* the positions of level that hold one of the characters chars
PositionsOf(level, chars) ==
    {pos \in (0 .. (MaxRowLen(level) - 1)) \X (0 .. (Len(level) - 1)) :
        /\ pos[1] < Len(level[pos[2] + 1])
        /\ level[pos[2] + 1][pos[1] + 1] \in chars}

\* the value left in self.player by the loops of parse_level: the last
\* position, row by row, among the positions ps where a player stands
LastPosition(ps) ==
    IF ps = {} THEN None
    ELSE CHOOSE pos \in ps :
            \A q \in ps : q[2] < pos[2] \/ (q[2] = pos[2] /\ q[1] <= pos[1])

\* parse_level on the object g, whose sets it adds to
parse_level(g, level) ==
    [g EXCEPT
        !.walls   = g.walls \cup PositionsOf(level, {WALL}),
        !.targets = g.targets \cup PositionsOf(level, {TARGET, BOX_ON_TARGET,
                                                       PLAYER_ON_TARGET}),
        !.boxes   = g.boxes \cup PositionsOf(level, {BOX, BOX_ON_TARGET}),
        !.player  = IF PositionsOf(level, {PLAYER, PLAYER_ON_TARGET}) = {}
                    THEN g.player
                    ELSE LastPosition(PositionsOf(level, {PLAYER,
                                                          PLAYER_ON_TARGET})),
        !.width   = MaxRowLen(level),
        !.height  = Len(level)]

\* Game.__init__(level_index): the fields of the new object
NewGame(index) ==
    parse_level([level_index |-> index, walls |-> {}, targets |-> {},
                 boxes |-> {}, player |-> None, moves |-> 0,
                 width |-> 0, height |-> 0],
                LEVELS[index + 1])

\* as PushBlocked, but another box does not stop the push
PushBlockedByWall(g, box_new_pos) == box_new_pos \in g.walls

\* line 130: a wall or another box is in the way of the pushed box
PushBlocked(g, box_new_pos) ==
    box_new_pos \in g.walls \/ box_new_pos \in g.boxes

\* lines 138-140: the player steps onto new_pos
Stepped(g, new_pos) ==
    [st |-> [g EXCEPT !.player = new_pos, !.moves = g.moves + 1],
     ret |-> "True"]

\* lines 134-135: the box on new_pos goes to box_new_pos
Pushed(g, new_pos, box_new_pos) ==
    [g EXCEPT !.boxes = (g.boxes \ {new_pos}) \cup {box_new_pos}]

\* Game.move(dx, dy) on the object g: the object left and the value returned
move(g, dx, dy) ==
    LET new_pos     == <<g.player[1] + dx, g.player[2] + dy>>
        box_new_pos == <<new_pos[1] + dx, new_pos[2] + dy>>
    IN  IF new_pos \in g.walls THEN [st |-> g, ret |-> "False"]
        ELSE IF new_pos \in g.boxes
        THEN IF PushBlocked(g, box_new_pos) THEN [st |-> g, ret |-> "False"]
             ELSE Stepped(Pushed(g, new_pos, box_new_pos), new_pos)
        ELSE Stepped(g, new_pos)

\* the Game object of the current state
CurGame ==
    [level_index |-> level_index, walls |-> walls, targets |-> targets,
     boxes |-> boxes, player |-> player, moves |-> move_count,
     width |-> width, height |-> height]

InstallGame(g) ==
    /\ level_index' = g.level_index
    /\ walls' = g.walls
    /\ targets' = g.targets
    /\ boxes' = g.boxes
    /\ player' = g.player
    /\ move_count' = g.moves
    /\ width' = g.width
    /\ height' = g.height

\* the (dx, dy) of the four movement keys
Steps == {<<0, -1>>, <<0, 1>>, <<-1, 0>>, <<1, 0>>}

\* a run of pushbox.py holds no ChessGame object
NoChessGame ==
    /\ board = <<>>
    /\ current_turn = NoColor
    /\ selected_piece = None
    /\ valid_moves = <<>>
    /\ game_over = FALSE
    /\ winner = NoColor
    /\ in_check = FALSE
    /\ ply = 0
    /\ recorded = 0

\* Game(level_index) for either level
InitPushbox ==
    /\ \E index \in 0 .. (Len(LEVELS) - 1) :
          /\ level_index = NewGame(index).level_index
          /\ walls = NewGame(index).walls
          /\ targets = NewGame(index).targets
          /\ boxes = NewGame(index).boxes
          /\ player = NewGame(index).player
          /\ move_count = NewGame(index).moves
          /\ width = NewGame(index).width
          /\ height = NewGame(index).height
    /\ op = "__init__"
    /\ ret = "None"
    /\ NoChessGame

\* a call move(dx, dy) with one of the four steps
Move ==
    /\ move_count < MaxMoves
    /\ \E d \in Steps :
          /\ InstallGame(move(CurGame, d[1], d[2]).st)
          /\ ret' = move(CurGame, d[1], d[2]).ret
    /\ op' = "move"
    /\ UNCHANGED <<board, current_turn, selected_piece, valid_moves,
                   game_over, winner, in_check, ply, recorded>>

NextPushbox == Move

SpecPushbox == InitPushbox /\ [][NextPushbox]_vars

(***************************************************************************)
(* Properties.                                                             *)
(***************************************************************************)
Squares == Rows \X Rows

SeqToSet(list) == {list[i] : i \in 1 .. Len(list)}

\* the king of color stands on the board b and no piece of the other color
\* attacks its square
KingSafe(b, color) ==
    \E sq \in Squares :
        /\ At(b, sq[1], sq[2]) = <<color, "king">>
        /\ ~is_square_attacked(b, sq[1], sq[2], Opponent(color))

\* C1: legality soundness.  For every square s holding a piece of color c
\* and every destination d returned by get_valid_moves(s), the board with
\* the piece moved from s to d has c's king not attacked by the other color.
LegalitySoundness ==
    \A s \in Squares :
        At(board, s[1], s[2]) # None =>
            \A d \in SeqToSet(get_valid_moves(board, s[1], s[2]).moves) :
                KingSafe(MakeMove(board, s[1], s[2], d[1], d[2]),
                         At(board, s[1], s[2])[1])

\* a piece is selected, some of its pseudo-legal moves were filtered out
\* and some remain
FilteredSelection ==
    /\ selected_piece # None
    /\ valid_moves # <<>>
    /\ Len(valid_moves) <
         Len(PseudoMoves(board, selected_piece[1], selected_piece[2],
                         At(board, selected_piece[1], selected_piece[2])))


\* the last call moved a piece: move_piece returned True, or handle_click
\* changed the board (it changes the board only through move_piece)
Moved ==
    \/ op' = "move_piece" /\ ret' = "True"
    \/ op' = "handle_click" /\ board' # board

\* C2: turn alternation.  A successful move_piece changes current_turn to
\* the other color; a failed move_piece, a select_piece call and a
\* handle_click call that makes no move leave current_turn unchanged.
TurnAlternation ==
    [][/\ Moved =>
            /\ current_turn' # current_turn
            /\ current_turn' \in {"white", "black"}
       /\ (op' \in {"move_piece", "select_piece", "handle_click"} /\ ~Moved) =>
            current_turn' = current_turn]_vars

\* black has just moved with move_piece, and it is white's turn again
BlackMoved ==
    /\ op = "move_piece" /\ ret = "True"
    /\ ply = 2 /\ current_turn = "white"

\* the legal moves of the piece on sq for the side to move
LegalMoveSet(b, turn, sq) ==
    IF At(b, sq[1], sq[2]) # None /\ At(b, sq[1], sq[2])[1] = turn
    THEN SeqToSet(get_valid_moves(b, sq[1], sq[2]).moves)
    ELSE {}

\* C3: valid_moves holds exactly the legal moves of the selected square
\* under the current board and turn, and is empty when nothing is selected.
CacheIsExact ==
    IF selected_piece = None THEN valid_moves = <<>>
    ELSE /\ selected_piece \in Squares
         /\ SeqToSet(valid_moves) = LegalMoveSet(board, current_turn, selected_piece)
         /\ Cardinality(SeqToSet(valid_moves)) = Len(valid_moves)

\* a piece with legal moves was selected with select_piece
SelectedWithMoves ==
    /\ op = "select_piece" /\ ret = "True"
    /\ selected_piece # None /\ valid_moves # <<>>

\* some piece of color has a legal move on the board b
SomeLegalMove(b, color) ==
    \E sq \in Squares : LegalMoveSet(b, color, sq) # {}

\* C4: after a successful move the game is over exactly if the new side to
\* move has no piece with a legal move; it is then won by the side that
\* moved if the new side to move is in check, and by nobody otherwise.
TerminalIffNoMoves ==
    [][Moved =>
        /\ game_over' = ~SomeLegalMove(board', current_turn')
        /\ game_over' =>
              winner' = IF KingSafe(board', current_turn')
                        THEN NoColor ELSE current_turn]_vars

\* move_piece has just checkmated white
Checkmated ==
    /\ op = "move_piece" /\ ret = "True"
    /\ game_over /\ in_check /\ winner = "black" /\ current_turn = "white"

\* C5: move_piece with no piece selected, or with a destination that is not
\* in valid_moves, returns False and changes no field.
FailedMoveChangesNothing ==
    \A sq \in Inputs :
        (selected_piece = None \/ sq \notin SeqToSet(valid_moves)) =>
            /\ move_piece(Cur, sq[1], sq[2]).ret = "False"
            /\ move_piece(Cur, sq[1], sq[2]).st = Cur

\* move_piece has just refused a destination while a piece with legal
\* moves was selected
MoveRefused ==
    /\ op = "move_piece" /\ ret = "False"
    /\ selected_piece # None /\ valid_moves # <<>>

\* C6: once the game is over, select_piece returns False (as stated; the
\* code returns True for a piece of the side to move).
SelectFailsWhenOver ==
    (game_over /\ op = "select_piece") => ret = "False"

\* sq holds a piece of the side to move
HoldsOwnPiece(sq) ==
    /\ sq \in Squares
    /\ At(board, sq[1], sq[2]) # None
    /\ At(board, sq[1], sq[2])[1] = current_turn

\* C7: select_piece on an empty square, a square off the board or a square
\* of the other color returns False and changes no field; on a piece of the
\* side to move while the game is not over it returns True and selects it.
SelectContract ==
    \A sq \in Inputs :
        LET r == select_piece(Cur, sq[1], sq[2])
        IN  /\ ~HoldsOwnPiece(sq) => (r.ret = "False" /\ r.st = Cur)
            /\ (HoldsOwnPiece(sq) /\ ~game_over) =>
                  (r.ret = "True" /\ r.st.selected_piece = sq)

\* select_piece has just refused a square while another piece stayed
\* selected
SelectRefused ==
    /\ op = "select_piece" /\ ret = "False"
    /\ selected_piece # None /\ valid_moves # <<>>

\* C8: game_over is monotonic.  A select_piece, move_piece or handle_click
\* call made when game_over is true leaves it true; only reset clears it.
GameOverMonotonic ==
    [][/\ (game_over /\ op' # "reset") => game_over'
       /\ op' = "reset" => ~game_over']_vars

\* a piece was selected with select_piece after the game had ended
SelectedAfterEnd ==
    game_over /\ op = "select_piece" /\ ret = "True"

\* the number of squares of b that hold piece
Count(b, piece) ==
    Cardinality({sq \in Squares : At(b, sq[1], sq[2]) = piece})

\* the number of pieces on b
NumPieces(b) ==
    Cardinality({sq \in Squares : At(b, sq[1], sq[2]) # None})

Colors == {"white", "black"}

PieceTypes == {"pawn", "rook", "knight", "bishop", "queen", "king"}

\* every square of b holds nothing or exactly one piece
OnePiecePerSquare(b) ==
    \A sq \in Squares :
        \/ At(b, sq[1], sq[2]) = None
        \/ At(b, sq[1], sq[2]) \in Colors \X PieceTypes

\* no legal move of the side to move ends on a piece of its own color
NoOwnDestination ==
    \A sq \in Squares :
        \A d \in LegalMoveSet(board, current_turn, sq) :
            \/ At(board, d[1], d[2]) = None
            \/ At(board, d[1], d[2])[1] # current_turn

\* the last move ended on d: d now holds the piece that stood on the
\* selected square, which is empty, and no other square changed
Destination(d) ==
    /\ At(board', d[1], d[2]) = At(board, selected_piece[1], selected_piece[2])
    /\ At(board', selected_piece[1], selected_piece[2]) = None
    /\ \A sq \in Squares \ {d, selected_piece} :
          At(board', sq[1], sq[2]) = At(board, sq[1], sq[2])

\* C10: capture semantics.  A successful move ends on a square of
\* valid_moves, which then holds the moving piece; if that square held a
\* piece of the other color the number of pieces drops by exactly one, and
\* otherwise it stays the same.  Every square always holds at most one
\* piece, and no legal destination holds a piece of the mover's color.
CaptureSemantics ==
    /\ [](OnePiecePerSquare(board) /\ NoOwnDestination)
    /\ [][Moved =>
            \E d \in SeqToSet(valid_moves) :
                /\ Destination(d)
                /\ At(board, d[1], d[2]) # None =>
                      /\ At(board, d[1], d[2])[1] = Opponent(current_turn)
                      /\ NumPieces(board') = NumPieces(board) - 1
                /\ At(board, d[1], d[2]) = None =>
                      NumPieces(board') = NumPieces(board)]_vars

\* the white queen has just captured the pawn on a5 (3.Qxa5 of the recorded
\* game, made by handle_click through move_piece)
Captured ==
    /\ op = "handle_click" /\ recorded = 10
    /\ At(board, 3, 0) = <<"white", "queen">>
    /\ current_turn = "black"
    /\ NumPieces(board) = NumPieces(SetupBoard) - 1

\* the standard starting position, rank 8 first, written out
StandardPosition ==
    << << <<"black", "rook">>, <<"black", "knight">>, <<"black", "bishop">>,
          <<"black", "queen">>, <<"black", "king">>, <<"black", "bishop">>,
          <<"black", "knight">>, <<"black", "rook">> >>,
       << <<"black", "pawn">>, <<"black", "pawn">>, <<"black", "pawn">>,
          <<"black", "pawn">>, <<"black", "pawn">>, <<"black", "pawn">>,
          <<"black", "pawn">>, <<"black", "pawn">> >>,
       << <<>>, <<>>, <<>>, <<>>, <<>>, <<>>, <<>>, <<>> >>,
       << <<>>, <<>>, <<>>, <<>>, <<>>, <<>>, <<>>, <<>> >>,
       << <<>>, <<>>, <<>>, <<>>, <<>>, <<>>, <<>>, <<>> >>,
       << <<>>, <<>>, <<>>, <<>>, <<>>, <<>>, <<>>, <<>> >>,
       << <<"white", "pawn">>, <<"white", "pawn">>, <<"white", "pawn">>,
          <<"white", "pawn">>, <<"white", "pawn">>, <<"white", "pawn">>,
          <<"white", "pawn">>, <<"white", "pawn">> >>,
       << <<"white", "rook">>, <<"white", "knight">>, <<"white", "bishop">>,
          <<"white", "queen">>, <<"white", "king">>, <<"white", "bishop">>,
          <<"white", "knight">>, <<"white", "rook">> >> >>

\* the number of legal moves of all the pieces of color on b, the squares
\* lo..hi in row-major order
RECURSIVE CountLegalMoves(_, _, _, _)
CountLegalMoves(b, color, lo, hi) ==
    IF lo = hi
    THEN Cardinality(LegalMoveSet(b, color,
                                  <<lo \div BOARD_SIZE, lo % BOARD_SIZE>>))
    ELSE CountLegalMoves(b, color, lo, (lo + hi) \div 2)
         + CountLegalMoves(b, color, (lo + hi) \div 2 + 1, hi)

\* C11: after reset() from any state the board is the standard starting
\* position, white is to move, nothing is selected, valid_moves is empty,
\* in_check and game_over are false, winner is None, and the white pieces
\* have 20 legal moves in all.
ResetRestoresStart ==
    [][op' = "reset" =>
        /\ board' = StandardPosition
        /\ current_turn' = "white"
        /\ selected_piece' = None
        /\ valid_moves' = <<>>
        /\ ~in_check' /\ ~game_over' /\ winner' = NoColor
        /\ CountLegalMoves(board', "white", 0, 63) = 20]_vars

\* reset() has just been called, and white's twenty moves are there
FreshAfterReset ==
    /\ op = "reset" /\ board = StandardPosition
    /\ CountLegalMoves(board, current_turn, 0, 63) = 20

\* the checkmate position: black king a8, black pawns a7 and b7, white
\* rook h8, white king e1
CheckmateScene ==
    Place(EmptyBoard, << <<0, 0, "black", "king">>, <<1, 0, "black", "pawn">>,
                         <<1, 1, "black", "pawn">>, <<0, 7, "white", "rook">>,
                         <<7, 4, "white", "king">> >>)

\* C12: on the checkmate position with black to move, black is in check,
\* the king on (0,0) has no legal move, no black piece has one, is_checkmate
\* holds, and the game stands as over and won by white.
CheckmateScenario ==
    (board = CheckmateScene /\ current_turn = "black") =>
        /\ is_in_check(board, "black") /\ in_check
        /\ get_valid_moves(board, 0, 0).moves = <<>>
        /\ ~SomeLegalMove(board, "black")
        /\ ~has_valid_moves(board, "black").result
        /\ is_checkmate(board, "black").result
        /\ ~is_stalemate(board, "black").result
        /\ game_over /\ winner = "white"

\* the rook has just moved to h8 and mated
BackRankMated ==
    /\ board = CheckmateScene /\ current_turn = "black"
    /\ op = "move_piece" /\ ret = "True" /\ ply = 1

\* the stalemate position: black king a8, white queen b6, white king e1
StalemateScene ==
    Place(EmptyBoard, << <<0, 0, "black", "king">>, <<2, 1, "white", "queen">>,
                         <<7, 4, "white", "king">> >>)

\* C13: on the stalemate position with black to move, black is not in
\* check, the king on (0,0) has no legal move, is_stalemate holds, and the
\* game stands as over with no winner.
StalemateScenario ==
    (board = StalemateScene /\ current_turn = "black") =>
        /\ ~is_in_check(board, "black") /\ ~in_check
        /\ get_valid_moves(board, 0, 0).moves = <<>>
        /\ ~SomeLegalMove(board, "black")
        /\ is_stalemate(board, "black").result
        /\ ~is_checkmate(board, "black").result
        /\ game_over /\ winner = NoColor

\* the queen has just moved to b6 and stalemated
QueenStalemated ==
    /\ board = StalemateScene /\ current_turn = "black"
    /\ op = "move_piece" /\ ret = "True" /\ ply = 1

\* the fields after select_piece(sq) is called on the fields s
AfterSelect(s, sq) == select_piece(s, sq[1], sq[2]).st

\* once, the fields after one select_piece(sq), against the fields after
\* a second call and the board b before the first
SameAfterSecond(once, sq, b) ==
    /\ AfterSelect(once, sq).selected_piece = once.selected_piece
    /\ AfterSelect(once, sq).valid_moves = once.valid_moves
    /\ once.board = b
    /\ AfterSelect(once, sq).board = b

\* C14: selecting a square twice in a row gives, after the second call, the
\* same selected_piece and the same valid_moves as after the first, and
\* neither call changes the board.
SelectIdempotent ==
    \A sq \in Inputs : SameAfterSecond(AfterSelect(Cur, sq), sq, board)

\* a pawn with its two moves was selected with select_piece, and selecting
\* it again leads to this same state
Reselected ==
    /\ op = "select_piece" /\ ret = "True"
    /\ selected_piece \in Inputs
    /\ Len(valid_moves) = 2
    /\ AfterSelect(Cur, selected_piece) = Cur

\* the probe of every pseudo-legal move of the piece on sq leaves b as it was
ProbesKeepBoard(b, sq) ==
    At(b, sq[1], sq[2]) # None =>
        \A d \in SeqToSet(PseudoMoves(b, sq[1], sq[2], At(b, sq[1], sq[2]))) :
            would_be_in_check(b, sq[1], sq[2], d[1], d[2],
                              At(b, sq[1], sq[2])[1]).board = b

\* the board b without the king of color
WithoutKing(b, color) ==
    IF find_king(b, color) = None THEN b
    ELSE SetSquare(b, find_king(b, color)[1], find_king(b, color)[2], None)

\* with no king of its color on b, every probe of a move of the piece on sq
\* reports check and leaves b as it was, and so does get_valid_moves
FallbackKeepsBoard(b, sq) ==
    At(b, sq[1], sq[2]) # None =>
        /\ \A d \in SeqToSet(PseudoMoves(b, sq[1], sq[2], At(b, sq[1], sq[2]))) :
              would_be_in_check(b, sq[1], sq[2], d[1], d[2],
                                At(b, sq[1], sq[2])[1])
                = [in_check |-> TRUE, board |-> b]
        /\ get_valid_moves(b, sq[1], sq[2]) = [moves |-> <<>>, board |-> b]

\* the legal move filter and its callers leave the board as it is
FilterKeepsBoard ==
    /\ \A sq \in Squares :
          /\ get_valid_moves(board, sq[1], sq[2]).board = board
          /\ ProbesKeepBoard(board, sq)
          /\ At(board, sq[1], sq[2]) # None =>
                FallbackKeepsBoard(
                    WithoutKing(board, At(board, sq[1], sq[2])[1]), sq)
    /\ \A color \in Colors :
          /\ has_valid_moves(board, color).board = board
          /\ is_checkmate(board, color).board = board
          /\ is_stalemate(board, color).board = board
    /\ \A sq \in Inputs : select_piece(Cur, sq[1], sq[2]).st.board = board

\* C15: get_valid_moves and every _would_be_in_check call inside it leave
\* all 64 squares as they were, also when the king is missing; so
\* select_piece, is_checkmate, is_stalemate and _has_valid_moves leave the
\* board unchanged, and a move changes it by the played move only.
FilterLeavesBoard ==
    /\ []FilterKeepsBoard
    /\ [][(op' = "select_piece" => board' = board)
           /\ (Moved =>
                 \E d \in SeqToSet(valid_moves) :
                     board' = MakeMove(board, selected_piece[1],
                                       selected_piece[2], d[1], d[2]))]_vars

\* the side to move is in check and has selected a piece some of whose
\* moves the filter has removed
FilteredInCheck ==
    /\ in_check /\ ~game_over
    /\ selected_piece # None
    /\ Len(valid_moves) <
         Len(PseudoMoves(board, selected_piece[1], selected_piece[2],
                         At(board, selected_piece[1], selected_piece[2])))

\* the fields `after` are those handle_click(sq) must leave by the stated
\* dispatch: the move applied if sq is in valid_moves; else, if sq holds a
\* piece of the side to move, that piece selected with its legal moves;
\* else nothing selected, valid_moves empty, board and turn as they were
Dispatched(after, sq) ==
    IF sq \in SeqToSet(valid_moves)
    THEN after = move_piece(Cur, sq[1], sq[2]).st
    ELSE IF HoldsOwnPiece(sq)
    THEN /\ after.selected_piece = sq
         /\ SeqToSet(after.valid_moves) = LegalMoveSet(board, current_turn, sq)
         /\ after.board = board /\ after.current_turn = current_turn
    ELSE /\ after.selected_piece = None /\ after.valid_moves = <<>>
         /\ after.board = board /\ after.current_turn = current_turn

\* C16 as stated: handle_click dispatches in every state.
DispatchAsStated ==
    \A sq \in Inputs : Dispatched(handle_click(Cur, sq[1], sq[2]).st, sq)

\* C16: while the game is not over handle_click applies the move if the
\* square is in valid_moves, else selects a piece of the side to move with
\* its legal moves, else clears the selection leaving board and turn; once
\* the game is over it changes no field.
DispatchWhilePlaying ==
    \A sq \in Inputs :
        IF game_over
        THEN handle_click(Cur, sq[1], sq[2]).st = Cur
        ELSE Dispatched(handle_click(Cur, sq[1], sq[2]).st, sq)

\* handle_click was called after the game had ended and left the selection
\* made by select_piece
ClickIgnored ==
    /\ op = "handle_click" /\ game_over
    /\ selected_piece # None

\* the squares on which the boards b and c differ
Changed(b, c) == {sq \in Squares : At(b, sq[1], sq[2]) # At(c, sq[1], sq[2])}

\* C17: a successful move changes exactly two squares: the origin becomes
\* empty and the destination holds the piece, of the same color and type,
\* that stood on the origin; every other square is unchanged.  The
\* selection and valid_moves are cleared.
MoveChangesTwoSquares ==
    [][Moved =>
        /\ selected_piece' = None /\ valid_moves' = <<>>
        /\ Cardinality(Changed(board, board')) = 2
        /\ selected_piece \in Changed(board, board')
        /\ At(board', selected_piece[1], selected_piece[2]) = None
        /\ \E d \in SeqToSet(valid_moves) :
              /\ d \in Changed(board, board')
              /\ At(board', d[1], d[2])
                    = At(board, selected_piece[1], selected_piece[2])]_vars

\* move_piece has just put the white pawn on the last rank, where it is
\* still a pawn
PawnOnLastRank ==
    /\ op = "move_piece" /\ ret = "True"
    /\ At(board, 0, 6) = <<"white", "pawn">>
    /\ current_turn = "black"

\* the row in front of a pawn of color on row r: white pawns go up the
\* board (towards row 0), black pawns down
RowAhead(r, color) == IF color = "white" THEN r - 1 ELSE r + 1

\* the two squares diagonally in front of a pawn of color on sq, if on the
\* board
PawnDiagonals(sq, color) ==
    {<<RowAhead(sq[1], color), sq[2] - 1>>,
     <<RowAhead(sq[1], color), sq[2] + 1>>} \cap Squares

\* the squares the piece on sq threatens on b: a pawn its two forward
\* diagonals, any other piece its raw moves
Threatens(b, sq) ==
    IF At(b, sq[1], sq[2])[2] = "pawn"
    THEN PawnDiagonals(sq, At(b, sq[1], sq[2])[1])
    ELSE SeqToSet(get_raw_moves(b, sq[1], sq[2], At(b, sq[1], sq[2])))

\* some piece of by_color threatens t on b
ThreatenedBy(b, t, by_color) ==
    \E sq \in Squares :
        /\ At(b, sq[1], sq[2]) # None
        /\ At(b, sq[1], sq[2])[1] = by_color
        /\ t \in Threatens(b, sq)

\* a pawn of color stands on b with t diagonally in front of it
PawnDiagonalOn(b, t, color) ==
    \E sq \in Squares :
        /\ At(b, sq[1], sq[2]) = <<color, "pawn">>
        /\ t \in PawnDiagonals(sq, color)

\* a pawn of color stands on b with t straight in front of it
PawnAheadOf(b, t, color) ==
    \E sq \in Squares :
        /\ At(b, sq[1], sq[2]) = <<color, "pawn">>
        /\ t = <<RowAhead(sq[1], color), sq[2]>>

\* the rules for the king of color standing on k
KingAvoidsPawnDiagonals(k, color) ==
    \A d \in SeqToSet(get_king_moves(board, k[1], k[2], color)) :
        /\ PawnDiagonalOn(board, d, Opponent(color)) =>
              d \notin LegalMoveSet(board, color, k)
        /\ (/\ PawnAheadOf(board, d, Opponent(color))
            /\ ~ThreatenedBy(MakeMove(board, k[1], k[2], d[1], d[2]), d,
                             Opponent(color)))
              => d \in SeqToSet(get_valid_moves(board, k[1], k[2]).moves)

\* C18: for the attack query a pawn attacks exactly its two forward
\* diagonals on the board, empty or occupied, and never the square straight
\* ahead: _get_raw_moves gives those squares for a pawn, and
\* _is_square_attacked is true exactly of the squares some piece threatens
\* so.  A king has no legal move onto a square diagonally in front of an
\* enemy pawn, and has one onto a square straight in front of an enemy pawn
\* that nothing threatens.
PawnAttacks ==
    /\ \A sq \in Squares :
          At(board, sq[1], sq[2]) # None /\ At(board, sq[1], sq[2])[2] = "pawn"
            => /\ SeqToSet(get_raw_moves(board, sq[1], sq[2],
                                         At(board, sq[1], sq[2])))
                    = PawnDiagonals(sq, At(board, sq[1], sq[2])[1])
               /\ <<RowAhead(sq[1], At(board, sq[1], sq[2])[1]), sq[2]>>
                    \notin Threatens(board, sq)
    /\ \A t \in Squares : \A color \in Colors :
          is_square_attacked(board, t[1], t[2], color)
            = ThreatenedBy(board, t, color)
    /\ \A color \in Colors :
          find_king(board, color) # None =>
              KingAvoidsPawnDiagonals(find_king(board, color), color)

\* the black king e6 is selected: it may step to e5, straight in front of
\* the white pawn e4, but not to d5 or f5
KingFacesPawn ==
    /\ op = "select_piece" /\ ret = "True"
    /\ selected_piece = <<2, 4>>
    /\ At(board, 2, 4) = <<"black", "king">>
    /\ At(board, 4, 4) = <<"white", "pawn">>
    /\ <<3, 4>> \in SeqToSet(valid_moves)
    /\ <<3, 3>> \notin SeqToSet(valid_moves)
    /\ <<3, 5>> \notin SeqToSet(valid_moves)
    /\ At(board, 3, 3) = None /\ At(board, 3, 5) = None

\* sq is on the board b and empty
EmptyOn(b, sq) == sq \in Squares /\ At(b, sq[1], sq[2]) = None

\* the rank a pawn of color starts on
HomeRow(color) == IF color = "white" THEN 6 ELSE 1

\* the destinations of a pawn of color on sq: one step ahead onto an empty
\* square; two steps from the home row over an empty square onto an empty
\* square; a forward diagonal that holds a piece of the other color
PawnDestinations(b, sq, color) ==
    {d \in {<<RowAhead(sq[1], color), sq[2]>>} : EmptyOn(b, d)}
    \cup {d \in {<<RowAhead(RowAhead(sq[1], color), color), sq[2]>>} :
            /\ sq[1] = HomeRow(color)
            /\ EmptyOn(b, <<RowAhead(sq[1], color), sq[2]>>)
            /\ EmptyOn(b, d)}
    \cup {d \in PawnDiagonals(sq, color) :
            /\ At(b, d[1], d[2]) # None
            /\ At(b, d[1], d[2])[1] = Opponent(color)}

\* C19: the pseudo-legal moves of a pawn are one step forward onto an empty
\* square, two steps from its home row (6 for white, 1 for black) if both
\* squares are empty, and a forward diagonal only if it holds a piece of
\* the other color; a pawn on the far rank has none, and the moves of every
\* pawn are generated without a fault.
PawnMoves ==
    \A sq \in Squares : \A color \in Colors :
        At(board, sq[1], sq[2]) = <<color, "pawn">> =>
            /\ SeqToSet(get_pawn_moves(board, sq[1], sq[2], color))
                 = PawnDestinations(board, sq, color)
            /\ Len(get_pawn_moves(board, sq[1], sq[2], color))
                 = Cardinality(PawnDestinations(board, sq, color))
            /\ RowAhead(sq[1], color) \notin Rows =>
                 get_pawn_moves(board, sq[1], sq[2], color) = <<>>

\* the white pawn on the far rank was selected, and has no move
FarRankPawnSelected ==
    /\ op = "select_piece" /\ ret = "True"
    /\ selected_piece = <<0, 6>>
    /\ At(board, 0, 6) = <<"white", "pawn">>
    /\ valid_moves = <<>>

\* the four directions along the ranks and files, and the four diagonals
Axes == {<<0, 1>>, <<0, -1>>, <<1, 0>>, <<-1, 0>>}

Diagonals == {<<1, 1>>, <<1, -1>>, <<-1, 1>>, <<-1, -1>>}

\* the square k steps from sq in the direction dir
Along(sq, dir, k) == <<sq[1] + k * dir[1], sq[2] + k * dir[2]>>

\* the destinations of a piece of color sliding from sq in the directions
\* dirs: a square on the board with only empty squares between sq and it,
\* itself empty or holding a piece of the other color
SlideDestinations(b, sq, color, dirs) ==
    {d \in {Along(sq, dir, k) : dir \in dirs, k \in 1 .. (BOARD_SIZE - 1)} :
        /\ d \in Squares
        /\ \E dir \in dirs : \E k \in 1 .. (BOARD_SIZE - 1) :
              /\ d = Along(sq, dir, k)
              /\ \A j \in 1 .. (k - 1) : EmptyOn(b, Along(sq, dir, j))
        /\ (At(b, d[1], d[2]) = None \/ At(b, d[1], d[2])[1] = Opponent(color))}

\* the list moves is the set dests, nothing twice
ListsExactly(moves, dests) ==
    SeqToSet(moves) = dests /\ Len(moves) = Cardinality(dests)

\* C20: the pseudo-legal moves of a rook (along ranks and files), a bishop
\* (along diagonals) and a queen (both) are, in each direction, the empty
\* squares next to the origin one after the other and the first occupied
\* square if it holds an opposing piece; nothing behind an occupied square
\* or off the board, and no square twice.
SlidingMoves ==
    \A sq \in Squares : \A color \in Colors :
        /\ At(board, sq[1], sq[2]) = <<color, "rook">> =>
              ListsExactly(get_rook_moves(board, sq[1], sq[2], color),
                           SlideDestinations(board, sq, color, Axes))
        /\ At(board, sq[1], sq[2]) = <<color, "bishop">> =>
              ListsExactly(get_bishop_moves(board, sq[1], sq[2], color),
                           SlideDestinations(board, sq, color, Diagonals))
        /\ At(board, sq[1], sq[2]) = <<color, "queen">> =>
              ListsExactly(get_queen_moves(board, sq[1], sq[2], color),
                           SlideDestinations(board, sq, color,
                                             Axes \cup Diagonals))

\* the white queen on h5 is selected: it can take the pawn a5 at the end of
\* the empty fifth rank, and nothing behind its own pawn h2
QueenSlides ==
    /\ selected_piece = <<3, 7>>
    /\ At(board, 3, 7) = <<"white", "queen">>
    /\ At(board, 3, 0) = <<"black", "pawn">>
    /\ <<3, 0>> \in SeqToSet(valid_moves)
    /\ <<4, 7>> \in SeqToSet(valid_moves) /\ <<5, 7>> \in SeqToSet(valid_moves)
    /\ <<6, 7>> \notin SeqToSet(valid_moves)

\* the squares of b that hold a piece of color
PiecesOf(b, color) ==
    {sq \in Squares : At(b, sq[1], sq[2]) # None
                         /\ At(b, sq[1], sq[2])[1] = color}

\* on the board b, which holds no king of color: the probe of every
\* pseudo-legal move of every piece of color reports check and puts the two
\* squares back, get_valid_moves returns no move for any of these pieces,
\* and _has_valid_moves finds none
NoMovesWithoutKing(b, color) ==
    /\ find_king(b, color) = None
    /\ \A sq \in PiecesOf(b, color) :
          /\ \A d \in SeqToSet(PseudoMoves(b, sq[1], sq[2],
                                            At(b, sq[1], sq[2]))) :
                /\ find_king(MakeMove(b, sq[1], sq[2], d[1], d[2]),
                             color) = None
                /\ would_be_in_check(b, sq[1], sq[2], d[1], d[2], color)
                     = [in_check |-> TRUE, board |-> b]
          /\ get_valid_moves(b, sq[1], sq[2]) = [moves |-> <<>>, board |-> b]
    /\ has_valid_moves(b, color) = [result |-> FALSE, board |-> b]

\* C21: when the king of a color is not on the board after a simulated
\* move, _would_be_in_check answers "in check" and the destination is
\* dropped: on the current board with that color's king taken off, every
\* piece of the color has no legal move, and each probe restores the board.
KingMissingFallback ==
    \A color \in Colors : NoMovesWithoutKing(WithoutKing(board, color), color)

\* the selected queen has legal moves, captures among them, and has none of
\* them on the same board without its king
QueenWithoutKing ==
    /\ op = "handle_click"
    /\ selected_piece # None
    /\ At(board, selected_piece[1], selected_piece[2]) = <<"white", "queen">>
    /\ \E d \in SeqToSet(valid_moves) : At(board, d[1], d[2]) # None
    /\ PseudoMoves(WithoutKing(board, "white"), selected_piece[1],
                   selected_piece[2], <<"white", "queen">>) # <<>>
    /\ get_valid_moves(WithoutKing(board, "white"), selected_piece[1],
                       selected_piece[2]).moves = <<>>

\* the distance between the integers x and y
Dist(x, y) == IF x < y THEN y - x ELSE x - y

\* the piece on sq attacks the square t on b: a pawn the squares diagonally
\* in front of it, a knight by its jump, a king the squares next to it,
\* rook, bishop and queen along their open lines
Reaches(b, sq, t) ==
    LET color == At(b, sq[1], sq[2])[1]
        type  == At(b, sq[1], sq[2])[2]
    IN  /\ t \in Squares
        /\ (At(b, t[1], t[2]) = None \/ At(b, t[1], t[2])[1] # color)
        /\ CASE type = "pawn"   -> t \in PawnDiagonals(sq, color)
              [] type = "knight" -> {Dist(sq[1], t[1]), Dist(sq[2], t[2])} = {1, 2}
              [] type = "king"   -> /\ sq # t
                                    /\ Dist(sq[1], t[1]) <= 1
                                    /\ Dist(sq[2], t[2]) <= 1
              [] type = "rook"   -> t \in SlideDestinations(b, sq, color, Axes)
              [] type = "bishop" -> t \in SlideDestinations(b, sq, color, Diagonals)
              [] type = "queen"  -> t \in SlideDestinations(b, sq, color,
                                                            Axes \cup Diagonals)

\* the king of color stands on a square of b that a piece of the other
\* color attacks
KingUnderAttack(b, color) ==
    \E k \in Squares :
        /\ At(b, k[1], k[2]) = <<color, "king">>
        /\ \E sq \in PiecesOf(b, Opponent(color)) : Reaches(b, sq, k)

\* C22: in every reachable state the field in_check is the value of
\* is_in_check(current_turn) on the current board, true exactly when the
\* king of the side to move is attacked by a piece of the other color; the
\* side that is not to move is never in check.
InCheckIsCurrent ==
    /\ in_check = is_in_check(board, current_turn)
    /\ in_check = KingUnderAttack(board, current_turn)
    /\ ~is_in_check(board, Opponent(current_turn))
    /\ ~KingUnderAttack(board, Opponent(current_turn))

\* the side to move stands in check after a click of the recorded game,
\* nothing selected, the game going on
CheckGiven ==
    /\ op = "handle_click" /\ recorded > 0
    /\ selected_piece = None
    /\ in_check /\ ~game_over
    /\ KingUnderAttack(board, current_turn)

\* the object t has the board, side to move, check flag, game_over and
\* winner of the current state
SamePosition(t) ==
    /\ t.board = board
    /\ t.current_turn = current_turn
    /\ t.in_check = in_check
    /\ t.game_over = game_over
    /\ t.winner = winner

\* from the object t, reached from the current state by one call, neither
\* move_piece nor handle_click on any square changes the position
StaysFrozen(t) ==
    /\ SamePosition(t)
    /\ \A d \in Squares :
          /\ move_piece(t, d[1], d[2]).ret = "False"
          /\ SamePosition(move_piece(t, d[1], d[2]).st)
          /\ SamePosition(handle_click(t, d[1], d[2]).st)

\* with the game over, a select_piece, move_piece or handle_click call on
\* any square, and any move_piece or handle_click after it, leaves the
\* position as it is; whatever is selected has no legal move
FrozenWhenOver ==
    game_over =>
        /\ valid_moves = <<>>
        /\ \A sq \in Squares :
              /\ StaysFrozen(select_piece(Cur, sq[1], sq[2]).st)
              /\ StaysFrozen(move_piece(Cur, sq[1], sq[2]).st)
              /\ StaysFrozen(handle_click(Cur, sq[1], sq[2]).st)

\* C23: once game_over is set, no select_piece, move_piece or handle_click
\* call, direct or through handle_click and in any order, changes board,
\* current_turn, in_check, game_over or winner; reset does.
FrozenAfterEnd ==
    /\ []FrozenWhenOver
    /\ [][/\ (game_over /\ op' # "reset") =>
                /\ board' = board
                /\ current_turn' = current_turn
                /\ in_check' = in_check
                /\ game_over' = game_over
                /\ winner' = winner
          /\ (game_over /\ op' = "reset") =>
                ~game_over' /\ board' # board /\ winner' = NoColor]_vars

\* after the mate a white pawn was selected with select_piece, and
\* move_piece has then refused to move it
MoveRefusedAfterEnd ==
    /\ game_over /\ winner = "black"
    /\ op = "move_piece" /\ ret = "False"
    /\ selected_piece # None
    /\ At(board, selected_piece[1], selected_piece[2]) = <<"white", "pawn">>

\* the position one step d from pos
StepFrom(pos, d) == <<pos[1] + d[1], pos[2] + d[2]>>

\* the walls, targets and boxes written in the layout of the level index
LayoutOf(index, chars) ==
    {pos \in (0 .. 7) \X (0 .. 7) : LEVELS[index + 1][pos[2] + 1][pos[1] + 1]
                                      \in chars}

\* the player stands on no wall and no box, no box stands on a wall, and
\* there are as many boxes as the layout shows
PushboxSound ==
    /\ player \in (0 .. 7) \X (0 .. 7)
    /\ player \notin walls
    /\ player \notin boxes
    /\ boxes \cap walls = {}
    /\ Cardinality(boxes) = Cardinality(LayoutOf(level_index, {"$", "*"}))
    /\ walls = LayoutOf(level_index, {"#"})
    /\ targets = LayoutOf(level_index, {".", "*", "+"})

\* a step d from the current position runs into a wall, or into a box with
\* a wall or another box behind it
StepBlocked(d) ==
    \/ StepFrom(player, d) \in walls
    \/ /\ StepFrom(player, d) \in boxes
       /\ \/ StepFrom(StepFrom(player, d), d) \in walls
          \/ StepFrom(StepFrom(player, d), d) \in boxes

\* the call just made was move with a step d that is not blocked: the
\* player has gone one square, and the box that stood there, if any, one
\* square further; no other box has moved
StepTaken(d) ==
    /\ ~StepBlocked(d)
    /\ player' = StepFrom(player, d)
    /\ IF player' \in boxes
       THEN /\ boxes' \ boxes = {StepFrom(player', d)}
            /\ boxes \ boxes' = {player'}
       ELSE boxes' = boxes

\* C24: from either level and whatever unit steps move is called with, the
\* player is never on a wall or a box, no box is on a wall, the number of
\* boxes stays, walls and targets stay; a move that returns False leaves
\* player, boxes and the move counter, a move that returns True takes the
\* player one square, pushes at most one box one square the same way and
\* adds one to the move counter.
PushboxMoves ==
    /\ []PushboxSound
    /\ [][/\ walls' = walls /\ targets' = targets
          /\ Cardinality(boxes') = Cardinality(boxes)
          /\ ret' = "False" =>
                /\ player' = player /\ boxes' = boxes
                /\ move_count' = move_count
                /\ \E d \in Steps : StepBlocked(d)
          /\ ret' = "True" =>
                /\ move_count' = move_count + 1
                /\ \E d \in Steps : StepTaken(d)
          /\ ret' \in {"True", "False"}]_vars

\* after boxes were pushed, move has refused to push a box against another
\* box
BoxAgainstBox ==
    /\ op = "move" /\ ret = "False"
    /\ boxes # LayoutOf(level_index, {"$", "*"})
    /\ \E d \in Steps :
          /\ StepFrom(player, d) \in boxes
          /\ StepFrom(StepFrom(player, d), d) \in boxes

====
